---- MODULE Spec2Model ----
(***************************************************************************)
(* A model of app.py, "The Research Rabbit Hole": a Streamlit script that  *)
(* searches Semantic Scholar for a paper, asks the user to confirm the     *)
(* match, and draws the paper's references and citations as a graph.       *)
(*                                                                         *)
(* Three specifications are given over the same variables:                 *)
(*   SpecBuild  one run of the body of build_graph on an arbitrary         *)
(*              upstream record and arbitrary slider settings;             *)
(*   SpecCache  calls of the memoized build_graph in any order, while the  *)
(*              upstream data changes;                                     *)
(*   Spec       a browser session: user interactions, each followed by a   *)
(*              rerun of the script (apply step, text input, logic flow).  *)
(* The sidebar's API key input only selects the client object and is left  *)
(* out: the client is not part of the cache key and no property reads it.  *)
(***************************************************************************)
EXTENDS Integers, Sequences, FiniteSets, TLC

VARIABLES
    \* st.session_state
    search_query, graph_data, pending_search_query,
    \* widget state kept by the host between passes
    confirm_keys,        \* the keys confirm_{query} whose checkbox is ticked
    selected,            \* the value agraph returns (the clicked node)
    max_refs, max_cites, \* the two sliders
    \* what the last pass put on the page
    shown_confirm,       \* key of the checkbox on the page, or None
    shown_button,        \* key of the use_seed button on the page, or None
    \* the interaction that triggered the pass
    event,
    \* position of the script and its locals
    pc, query, results, details, nodes, edges,
    \* st.cache_data of build_graph, and the first value each call key returned
    cache, returned,
    \* what the pass did (observations of the running pass)
    trace

vars == <<search_query, graph_data, pending_search_query, confirm_keys, selected,
          max_refs, max_cites, shown_confirm, shown_button, event,
          pc, query, results, details, nodes, edges, cache, returned, trace>>

-----------------------------------------------------------------------------
(* Bounds of the model *)

\* total number of reference and citation records of one upstream record
MaxRecords == 2
\* the sliders range over SliderMin..MaxLimit (the program's range is 1..20)
MaxLimit == 2

\* number of distinct calls of build_graph the upstream answers in one session
MaxCacheEntries == 2

(* Program constants *)
TitleLength == 30
SliderMin == 1
SliderDefault == 5
SeedSize == 25
LeafSize == 15

-----------------------------------------------------------------------------
(* Python values *)

\* Python's None where a string is expected
None == "<None>"

\* truthiness of an Optional[str]: None and '' are falsy
Truthy(x) == x # None /\ x # ""

\* x or y, on Optional[str]
OrElse(x, y) == IF Truthy(x) THEN x ELSE y

Min(a, b) == IF a <= b THEN a ELSE b

\* the slice s[:k] for k >= 0
Take(s, k) == SubSeq(s, 1, Min(k, Len(s)))

\* an Optional[list]: None, or a list of records
NoList == [none |-> TRUE, items |-> <<>>]
List(s) == [none |-> FALSE, items |-> s]

\* truthiness of an Optional[list]: None and [] are falsy
ListTruthy(l) == ~l.none /\ Len(l.items) > 0

-----------------------------------------------------------------------------
(* Helper functions *)

clean_title(title, length) ==
    IF ~Truthy(title) THEN "Unknown Title"
    ELSE IF Len(title) > length THEN SubSeq(title, 1, length) \o "..."
    ELSE title

Node(id, label, size, color, title) ==
    [id |-> id, label |-> label, size |-> size, color |-> color, title |-> title]

Edge(source, target, label, color) ==
    [source |-> source, target |-> target, label |-> label, color |-> color]

Red == "#FF4B4B"
Blue == "#1E88E5"
Green == "#43A047"
Grey == "#BDC3C7"

\* a variant that keeps a record as soon as it has an id
KeptIdOnly(rec) == Truthy(rec.paperId)

\* the condition under which a reference or citation record is kept
Kept(rec) == Truthy(rec.paperId) /\ Truthy(rec.title)

\* a variant that drops the incomplete records first and truncates after
SliceAfterFilter(recs, limit) ==
    Take(SelectSeq(recs, LAMBDA r : Truthy(r.paperId) /\ Truthy(r.title)), limit)

\* the slice of records a loop of build_graph runs over
Slice(recs, limit) == Take(recs, limit)

\* the loop over the references: appends a node and an edge per kept record
RECURSIVE RefLoop(_, _, _)
RefLoop(recs, seed, acc) ==
    IF recs = <<>> THEN acc
    ELSE LET ref == Head(recs)
             next == IF Kept(ref)
                     THEN [nodes |-> Append(acc.nodes,
                                       Node(ref.paperId, clean_title(ref.title, TitleLength),
                                            LeafSize, Blue, None)),
                           edges |-> Append(acc.edges,
                                       Edge(ref.paperId, seed, "influenced", Grey))]
                     ELSE acc
         IN RefLoop(Tail(recs), seed, next)

\* the loop over the citations
RECURSIVE CiteLoop(_, _, _)
CiteLoop(recs, seed, acc) ==
    IF recs = <<>> THEN acc
    ELSE LET cite == Head(recs)
             next == IF Kept(cite)
                     THEN [nodes |-> Append(acc.nodes,
                                       Node(cite.paperId, clean_title(cite.title, TitleLength),
                                            LeafSize, Green, None)),
                           edges |-> Append(acc.edges,
                                       Edge(seed, cite.paperId, "sparked", Grey))]
                     ELSE acc
         IN CiteLoop(Tail(recs), seed, next)

\* the body of build_graph, given the record get_paper returned
BuildGraph(d, limit_refs, limit_cites) ==
    LET central == [nodes |-> <<Node(d.paperId, clean_title(d.title, TitleLength),
                                     SeedSize, Red, d.title)>>,
                    edges |-> <<>>]
        withRefs == IF ListTruthy(d.references)
                    THEN RefLoop(Slice(d.references.items, limit_refs), d.paperId, central)
                    ELSE central
    IN IF ListTruthy(d.citations)
       THEN CiteLoop(Slice(d.citations.items, limit_cites), d.paperId, withRefs)
       ELSE withRefs

-----------------------------------------------------------------------------
(* Upstream data: what the Semantic Scholar client can return *)

ShortTitle == "Attention Is All You Need"
Title30 == "Deep Residual Learning for Img"
Title31 == "Deep Residual Learning for Imag"

PaperIds == {"p1", "p2"}

Rec(id, title) == [paperId |-> id, title |-> title]

\* reference and citation records, with every way of lacking an id or a title
Records ==
    { Rec("p1", ShortTitle), Rec("p2", Title31),
      Rec(None, ShortTitle), Rec("", ShortTitle),
      Rec("p1", None), Rec("p2", "") }

SeedTitles == {None, "", Title30, Title31}

SeqsOfLen(S, k) == [1..k -> S]

\* the values details.references / details.citations can take with k records
OptLists(k) ==
    {List(s) : s \in SeqsOfLen(Records, k)} \cup (IF k = 0 THEN {NoList} ELSE {})

Details(id, title, refs, cites) ==
    [paperId |-> id, title |-> title, references |-> refs, citations |-> cites]

NoDetails == Details(None, None, NoList, NoList)

\* every upstream record with at most MaxRecords reference and citation records
AllDetails ==
    UNION { UNION { { Details(id, t, r, c) :
                        id \in PaperIds, t \in SeedTitles,
                        r \in OptLists(a), c \in OptLists(b) }
                    : b \in 0..(MaxRecords - a) }
            : a \in 0..MaxRecords }

-----------------------------------------------------------------------------
(* Values of the session *)

NoSelection == [kind |-> "none", id |-> None, paperId |-> None]
NoKey == <<>>
NoEvent == [type |-> "load", key |-> None]

NewTrace(staged0, staged, sq, prev) ==
    [ staged0 |-> staged0,        \* pending_search_query before the interaction
      staged |-> staged,          \* pending_search_query when the script starts
      sq_start |-> sq,            \* search_query when the script starts
      prev_query |-> prev,        \* the text input's value in the previous pass
      applied |-> FALSE,          \* the apply step copied the staged query
      widget |-> FALSE,           \* the text input has been instantiated
      sq_widget |-> None,         \* search_query when it was instantiated
      pending_widget |-> None,    \* pending_search_query when it was instantiated
      searched |-> None,          \* the query search_paper was called with
      search_failed |-> FALSE,
      confirm |-> FALSE,          \* the value st.checkbox returned
      build_key |-> NoKey,        \* the arguments build_graph was called with
      build_failed |-> FALSE,
      built_ok |-> FALSE,         \* build_graph returned
      details_id |-> None,        \* the id the clicked node's details were fetched for
      details_failed |-> FALSE,
      fired |-> FALSE,            \* the use_seed button returned True
      fired_title |-> None,       \* paper.title when it did
      errors |-> {},              \* the st.error messages of the pass
      completed |-> FALSE ]       \* the script ran to its last line

\* the session before the script has run for the first time
SessionInit ==
    /\ search_query = ""
    /\ graph_data = None
    /\ pending_search_query = ""
    /\ confirm_keys = {}
    /\ selected = NoSelection
    /\ shown_confirm = None
    /\ shown_button = None
    /\ event = NoEvent
    /\ query = ""
    /\ results = <<>>
    /\ nodes = <<>>
    /\ edges = <<>>
    /\ cache = <<>>
    /\ returned = <<>>
    /\ trace = NewTrace("", "", "", "")

sessionVars == <<search_query, graph_data, pending_search_query, confirm_keys, selected,
                 shown_confirm, shown_button, event, query, results, cache, returned, trace>>

-----------------------------------------------------------------------------
(* SpecBuild: one invocation of build_graph *)

InitBuild ==
    /\ SessionInit
    /\ pc = "call"
    /\ details \in AllDetails
    /\ max_refs \in SliderMin..MaxLimit
    /\ max_cites \in SliderMin..MaxLimit

\* build_graph(paper_id, _client, limit_refs, limit_cites) once get_paper has answered
CallBuildGraph ==
    /\ pc = "call"
    /\ LET g == BuildGraph(details, max_refs, max_cites)
       IN /\ nodes' = g.nodes
          /\ edges' = g.edges
    /\ pc' = "returned"
    /\ UNCHANGED <<details, max_refs, max_cites>>
    /\ UNCHANGED sessionVars

NextBuild == CallBuildGraph

SpecBuild == InitBuild /\ [][NextBuild]_vars

-----------------------------------------------------------------------------
(* Spec: a session.  The host reruns the script from top to bottom after    *)
(* every interaction; a rerun is the three steps Apply, TextInput, Logic.   *)

PaperTitle(p) == IF p = "p1" THEN ShortTitle ELSE Title31
OtherPaper(p) == IF p = "p1" THEN "p2" ELSE "p1"

\* what the user types into the search box
TypedQueries == {"", "rabbit"}

\* the positions the sliders are moved to
SliderValues == {SliderMin, SliderDefault}

Response(raised, value) == [raised |-> raised, value |-> value]

\* sch.search_paper(query, limit=1): an exception, no paper, or one candidate
SearchResponses ==
    {Response(TRUE, <<>>), Response(FALSE, <<>>)}
        \cup {Response(FALSE, <<Rec(p, PaperTitle(p))>>) : p \in PaperIds}

\* the record the upstream holds for a paper during a session
UpstreamNow(p) ==
    Details(p, PaperTitle(p),
            List(<<Rec(OtherPaper(p), PaperTitle(OtherPaper(p))), Rec(p, PaperTitle(p))>>),
            NoList)

\* the record it holds once the paper has been cited
UpstreamLater(p) ==
    Details(p, PaperTitle(p),
            List(<<Rec(OtherPaper(p), PaperTitle(OtherPaper(p))), Rec(p, PaperTitle(p))>>),
            List(<<Rec(OtherPaper(p), PaperTitle(OtherPaper(p)))>>))

\* _client.get_paper inside build_graph: an exception, or one of the records
\* the upstream may hold (none when it no longer answers)
GraphResponses(upstream, answers) ==
    {Response(TRUE, NoDetails)}
        \cup (IF answers THEN {Response(FALSE, d) : d \in upstream} ELSE {})

\* sch.get_paper for the clicked node: an exception or a paper, with or without a title
DetailResponses(p) ==
    {Response(TRUE, Rec(p, None))}
        \cup {Response(FALSE, Rec(p, t)) : t \in {PaperTitle(p), "", None}}

\* the shapes in which agraph may report a click on node n
Selections(n) ==
    { [kind |-> "str", id |-> n, paperId |-> None],
      [kind |-> "dict", id |-> n, paperId |-> None],
      [kind |-> "dict", id |-> None, paperId |-> n],
      [kind |-> "other", id |-> None, paperId |-> None] }

SelTruthy(sel) == sel.kind # "none"

\* the id the script reads out of the value agraph returned
PaperIdOf(sel) ==
    IF sel.kind = "dict" THEN OrElse(sel.id, sel.paperId)
    ELSE IF sel.kind = "str" THEN sel.id
    ELSE None

\* a variant in which every query shares one checkbox key
ConfirmKeyFixed(q) == "confirm"

\* key=f"confirm_{query}"
ConfirmKey(q) == "confirm_" \o q

\* a variant of the reset callback that leaves the staged query in place
reset_app_keeps_pending ==
    [search_query |-> "", graph_data |-> None,
     pending_search_query |-> pending_search_query]

\* the callback of the Reset button
reset_app ==
    [search_query |-> "", graph_data |-> None, pending_search_query |-> ""]

\* a variant without the handler around search_paper
CatchesAllButSearch(site) == site # "search"

\* the except clauses of the script: around search_paper, around the graph
\* block, around the details fetch
Catches(site) == site \in {"search", "graph", "details"}

\* a variant of build_graph without memoization
CachedNever(c, key) == FALSE

\* st.cache_data: a call is answered from the cache when its key is there
Cached(c, key) == key \in DOMAIN c

CacheKey(paper_id, limit_refs, limit_cites) == <<paper_id, limit_refs, limit_cites>>

Store(c, key, value) == [k \in DOMAIN c \cup {key} |-> IF k = key THEN value ELSE c[k]]

\* the first value each key returned
Remember(r, key, value) == IF key \in DOMAIN r THEN r ELSE Store(r, key, value)

\* the upstream answers a call only while fewer than MaxCacheEntries calls are cached
Answers(c, key) == key \in DOMAIN c \/ Cardinality(DOMAIN c) < MaxCacheEntries

\* build_graph under @st.cache_data: _client is left out of the key; a hit
\* returns the stored value, a miss runs the body and stores what it returns,
\* an exception stores nothing
build_graph(c, paper_id, limit_refs, limit_cites, gr) ==
    LET key == CacheKey(paper_id, limit_refs, limit_cites)
    IN IF Cached(c, key)
       THEN [raised |-> FALSE, value |-> c[key], cache |-> c, fetched |-> NoDetails]
       ELSE IF gr.raised
       THEN [raised |-> TRUE, value |-> [nodes |-> <<>>, edges |-> <<>>], cache |-> c,
             fetched |-> NoDetails]
       ELSE LET g == BuildGraph(gr.value, limit_refs, limit_cites)
            IN [raised |-> FALSE, value |-> g, cache |-> Store(c, key, g),
                fetched |-> gr.value]

NodeIds(ns) == {ns[i].id : i \in 1..Len(ns)}

-----------------------------------------------------------------------------
(* Interactions: each changes what the front end holds and starts a rerun *)

StartPass(ev, staged0) ==
    /\ pc' = "apply"
    /\ event' = ev
    /\ trace' = NewTrace(staged0, pending_search_query', search_query', query)
    /\ results' = <<>>
    /\ details' = NoDetails
    /\ shown_confirm' = None
    /\ shown_button' = None
    /\ UNCHANGED <<query, nodes, edges, cache, returned>>

\* the user edits the search box and presses Enter
TypeQuery ==
    /\ pc = "idle"
    /\ \E q \in TypedQueries :
         /\ q # search_query
         /\ search_query' = q
    /\ UNCHANGED <<graph_data, pending_search_query, confirm_keys, selected,
                   max_refs, max_cites>>
    /\ StartPass([type |-> "type", key |-> None], pending_search_query)

\* the user clicks Reset App: the callback runs, then the script
ClickReset ==
    /\ pc = "idle"
    /\ search_query' = reset_app.search_query
    /\ graph_data' = reset_app.graph_data
    /\ pending_search_query' = reset_app.pending_search_query
    /\ UNCHANGED <<confirm_keys, selected, max_refs, max_cites>>
    /\ StartPass([type |-> "reset", key |-> None], pending_search_query)

\* the user ticks or unticks the Confirm & Map checkbox on the page
ToggleConfirm ==
    /\ pc = "idle"
    /\ shown_confirm # None
    /\ confirm_keys' = IF shown_confirm \in confirm_keys
                       THEN confirm_keys \ {shown_confirm}
                       ELSE confirm_keys \cup {shown_confirm}
    /\ UNCHANGED <<search_query, graph_data, pending_search_query, selected,
                   max_refs, max_cites>>
    /\ StartPass([type |-> "confirm", key |-> shown_confirm], pending_search_query)

\* the user moves one of the two sliders
MoveSlider ==
    /\ pc = "idle"
    /\ \E v \in SliderValues :
         \/ v # max_refs /\ max_refs' = v /\ max_cites' = max_cites
         \/ v # max_cites /\ max_cites' = v /\ max_refs' = max_refs
    /\ UNCHANGED <<search_query, graph_data, pending_search_query, confirm_keys, selected>>
    /\ StartPass([type |-> "slider", key |-> None], pending_search_query)

\* the user clicks a node of the graph on the page
ClickNode ==
    /\ pc = "idle"
    /\ trace.built_ok
    /\ \E n \in NodeIds(nodes) : \E sel \in Selections(n) :
         /\ sel # selected
         /\ selected' = sel
    /\ UNCHANGED <<search_query, graph_data, pending_search_query, confirm_keys,
                   max_refs, max_cites>>
    /\ StartPass([type |-> "node", key |-> None], pending_search_query)

\* the user clicks the "Use this paper as search seed" button on the page
ClickUseSeed ==
    /\ pc = "idle"
    /\ shown_button # None
    /\ UNCHANGED <<search_query, graph_data, pending_search_query, confirm_keys, selected,
                   max_refs, max_cites>>
    /\ StartPass([type |-> "use_seed", key |-> shown_button], pending_search_query)

\* the user reruns the script without changing anything
Rerun ==
    /\ pc = "idle"
    /\ UNCHANGED <<search_query, graph_data, pending_search_query, confirm_keys, selected,
                   max_refs, max_cites>>
    /\ StartPass([type |-> "rerun", key |-> None], pending_search_query)

-----------------------------------------------------------------------------
(* The script *)

\* a variant of the apply step that does not clear the staged query
ApplyPendingKeeps(sq, pend) ==
    IF Truthy(pend)
    THEN [search_query |-> pend, pending_search_query |-> pend, applied |-> TRUE]
    ELSE [search_query |-> sq, pending_search_query |-> pend, applied |-> FALSE]

\* if pending_search_query: search_query = pending_search_query; pending_search_query = ''
ApplyPending(sq, pend) ==
    IF Truthy(pend)
    THEN [search_query |-> pend, pending_search_query |-> "", applied |-> TRUE]
    ELSE [search_query |-> sq, pending_search_query |-> pend, applied |-> FALSE]

\* the apply step at the top of the main interface
Apply ==
    /\ pc = "apply"
    /\ LET a == ApplyPending(search_query, pending_search_query)
       IN /\ search_query' = a.search_query
          /\ pending_search_query' = a.pending_search_query
          /\ trace' = [trace EXCEPT !.applied = a.applied]
    /\ pc' = "input"
    /\ UNCHANGED <<graph_data, confirm_keys, selected, max_refs, max_cites, shown_confirm,
                   shown_button, event, query, results, details, nodes, edges, cache,
                   returned>>

\* query = st.text_input(..., key="search_query")
TextInput ==
    /\ pc = "input"
    /\ query' = search_query
    /\ trace' = [trace EXCEPT !.widget = TRUE, !.sq_widget = search_query,
                              !.pending_widget = pending_search_query]
    /\ pc' = "logic"
    /\ UNCHANGED <<search_query, graph_data, pending_search_query, confirm_keys, selected,
                   max_refs, max_cites, shown_confirm, shown_button, event, results,
                   details, nodes, edges, cache, returned>>

\* what the logic flow starts from
Start ==
    [ sq |-> search_query, pend |-> pending_search_query, results |-> <<>>,
      shown_confirm |-> None, nodes |-> <<>>, edges |-> <<>>, details |-> NoDetails,
      cache |-> cache, returned |-> returned, selected |-> NoSelection,
      shown_button |-> None, aborted |-> FALSE, t |-> trace ]

WithError(o, msg) == [o EXCEPT !.t.errors = @ \cup {msg}]

Abort(o) == [o EXCEPT !.aborted = TRUE]

\* a variant of the button handler that writes the active query slot itself
StageDirect(o, title) ==
    [o EXCEPT !.sq = OrElse(title, ""), !.t.fired = TRUE, !.t.fired_title = title]

\* the body of the use_seed button: st.session_state.pending_search_query = paper.title or ""
Stage(o, title) ==
    [o EXCEPT !.pend = OrElse(title, ""), !.t.fired = TRUE, !.t.fired_title = title]

\* if paper: the metadata and the use_seed button
AfterDetails(o, paper) ==
    LET shown == [o EXCEPT !.shown_button = paper.paperId]
    IN IF event.type = "use_seed" /\ event.key = paper.paperId
       THEN Stage(shown, paper.title)
       ELSE shown

\* except Exception around the graph block
GraphHandler(o) ==
    IF Catches("graph") THEN WithError(o, "Graph error") ELSE Abort(o)

\* the details fetch for the clicked node and what follows it
DetailsOutcome(o, paper_id, dr) ==
    LET asked == [o EXCEPT !.t.details_id = paper_id]
    IN IF dr.raised
       THEN LET failed == [asked EXCEPT !.t.details_failed = TRUE]
            IN IF Catches("details")
               THEN WithError(failed, "Failed to fetch paper details")
               ELSE GraphHandler(failed)
       ELSE AfterDetails(asked, dr.value)

\* if selected: ...
SelectedStage(o) ==
    IF ~SelTruthy(o.selected) THEN {o}
    ELSE LET paper_id == PaperIdOf(o.selected)
         IN IF ~Truthy(paper_id) THEN {o}
            ELSE {DetailsOutcome(o, paper_id, dr) : dr \in DetailResponses(paper_id)}

\* the values agraph may return: a component called with the arguments of the
\* previous pass keeps its value, any other call may start from the default
AgraphValues(g) ==
    IF g.nodes = nodes /\ g.edges = edges THEN {selected} ELSE {selected, NoSelection}

\* build_graph returned: the graph is drawn
Drawn(o, key, r) ==
    LET built == [o EXCEPT !.nodes = r.value.nodes, !.edges = r.value.edges,
                           !.details = r.fetched,
                           !.cache = r.cache,
                           !.returned = Remember(@, key, r.value),
                           !.t.built_ok = TRUE]
    IN UNION {SelectedStage([built EXCEPT !.selected = av]) : av \in AgraphValues(r.value)}

\* the graph generation step, inside try
GraphStage(o, candidate) ==
    LET key == CacheKey(candidate.paperId, max_refs, max_cites)
        called == [o EXCEPT !.t.build_key = key]
    IN UNION { LET r == build_graph(o.cache, candidate.paperId, max_refs, max_cites, gr)
               IN IF r.raised
                  THEN {GraphHandler([called EXCEPT !.t.build_failed = TRUE])}
                  ELSE Drawn(called, key, r)
               : gr \in GraphResponses({UpstreamNow(candidate.paperId)},
                                       Answers(o.cache, key)) }

\* the confirmation step
ConfirmStage(o, candidate) ==
    LET key == ConfirmKey(query)
        confirm == key \in confirm_keys
        shown == [o EXCEPT !.shown_confirm = key, !.t.confirm = confirm]
    IN IF confirm THEN GraphStage(shown, candidate) ELSE {shown}

\* the search step and what follows it
SearchOutcome(o, sr) ==
    LET asked == [o EXCEPT !.t.searched = query]
    IN IF sr.raised
       THEN LET failed == [asked EXCEPT !.t.search_failed = TRUE]
            IN IF Catches("search")
               THEN {WithError(failed, "Search failed")}
               ELSE {Abort(failed)}
       ELSE IF Len(sr.value) > 0
            THEN ConfirmStage([asked EXCEPT !.results = sr.value], sr.value[1])
            ELSE {asked}

\* if query: ...
LogicOutcomes ==
    IF Truthy(query)
    THEN UNION {SearchOutcome(Start, sr) : sr \in SearchResponses}
    ELSE {Start}

\* the logic flow, to the end of the script; the host then drops the state of
\* the widgets the pass did not draw
Logic ==
    /\ pc = "logic"
    /\ \E o \in LogicOutcomes :
         /\ search_query' = o.sq
         /\ pending_search_query' = o.pend
         /\ results' = o.results
         /\ shown_confirm' = o.shown_confirm
         /\ nodes' = o.nodes
         /\ edges' = o.edges
         /\ details' = o.details
         /\ cache' = o.cache
         /\ returned' = o.returned
         /\ selected' = o.selected
         /\ shown_button' = o.shown_button
         /\ confirm_keys' = confirm_keys \cap {o.shown_confirm}
         /\ trace' = [o.t EXCEPT !.completed = ~o.aborted]
    /\ pc' = "idle"
    /\ UNCHANGED <<graph_data, max_refs, max_cites, event, query>>

Init ==
    /\ SessionInit
    /\ pc = "apply"
    /\ details = NoDetails
    /\ max_refs = SliderDefault
    /\ max_cites = SliderDefault

Next ==
    \/ TypeQuery
    \/ ClickReset
    \/ ToggleConfirm
    \/ MoveSlider
    \/ ClickNode
    \/ ClickUseSeed
    \/ Rerun
    \/ Apply
    \/ TextInput
    \/ Logic

Spec == Init /\ [][Next]_vars

-----------------------------------------------------------------------------
(* SpecCache: calls of the memoized build_graph, in any order and with any  *)
(* arguments, while the upstream data changes                               *)

InitCache ==
    /\ SessionInit
    /\ pc = "cache"
    /\ details = NoDetails
    /\ max_refs = SliderDefault
    /\ max_cites = SliderDefault

\* nodes, edges = build_graph(paper_id, sch, limit_refs, limit_cites)
CallMemoized ==
    /\ pc = "cache"
    /\ \E p \in PaperIds, lr \in SliderValues, lc \in SliderValues :
         LET key == CacheKey(p, lr, lc)
         IN \E gr \in GraphResponses({UpstreamNow(p), UpstreamLater(p)}, Answers(cache, key)) :
              LET r == build_graph(cache, p, lr, lc, gr)
              IN /\ max_refs' = lr
                 /\ max_cites' = lc
                 /\ details' = r.fetched
                 /\ nodes' = r.value.nodes
                 /\ edges' = r.value.edges
                 /\ cache' = r.cache
                 /\ returned' = IF r.raised THEN returned ELSE Remember(returned, key, r.value)
                 /\ trace' = [NewTrace("", "", "", "") EXCEPT
                                 !.build_key = key, !.build_failed = r.raised,
                                 !.built_ok = ~r.raised]
    /\ UNCHANGED <<pc, search_query, graph_data, pending_search_query, confirm_keys,
                   selected, shown_confirm, shown_button, event, query, results>>

NextCache == CallMemoized

SpecCache == InitCache /\ [][NextCache]_vars

-----------------------------------------------------------------------------
(* Properties of build_graph (checked under SpecBuild) *)

\* the upstream lists, an absent list read as the empty one
UpRefs == details.references.items
UpCites == details.citations.items

\* a record that has both an id and a title
Complete(rec) == rec.paperId \notin {None, ""} /\ rec.title \notin {None, ""}

\* the indices below the limit that hold a complete record
KeptIdx(recs, limit) == {i \in 1..Len(recs) : i <= limit /\ Complete(recs[i])}

\* the j-th smallest element of a set of indices
Nth(K, j) == CHOOSE i \in K : Cardinality({m \in K : m < i}) = j - 1

\* the label a title is shown with
LabelOf(title) ==
    IF Len(title) > TitleLength THEN SubSeq(title, 1, TitleLength) \o "..." ELSE title

SeedId == details.paperId

\* every node after the first and every edge stands for the kept record of its rank
PerKeptRecord ==
    LET KR == KeptIdx(UpRefs, max_refs)
        KC == KeptIdx(UpCites, max_cites)
        nr == Cardinality(KR)
        nc == Cardinality(KC)
    IN /\ Len(nodes) = 1 + nr + nc
       /\ Len(edges) = nr + nc
       /\ Len(edges) = Len(nodes) - 1
       /\ nodes[1].id = SeedId /\ nodes[1].color = Red
       /\ \A i \in 2..Len(nodes) : nodes[i].color # Red
       /\ \A j \in 1..nr :
             /\ nodes[1 + j].id = UpRefs[Nth(KR, j)].paperId
             /\ edges[j].source = UpRefs[Nth(KR, j)].paperId
             /\ edges[j].target = SeedId
       /\ \A j \in 1..nc :
             /\ nodes[1 + nr + j].id = UpCites[Nth(KC, j)].paperId
             /\ edges[nr + j].source = SeedId
             /\ edges[nr + j].target = UpCites[Nth(KC, j)].paperId

\* every edge has the seed at one end and another paper at the other
SeedAtExactlyOneEnd ==
    \A j \in 1..Len(edges) : (edges[j].source = SeedId) # (edges[j].target = SeedId)

\* C1: build_graph returns one seed node, one node and one edge per kept
\* record (reference -> seed, seed -> citation), no other edges, so that the
\* edges number the nodes minus one and every edge has the seed as exactly
\* one endpoint.
C1_OneNodeOneEdgePerKeptRecord ==
    pc = "returned" => PerKeptRecord /\ SeedAtExactlyOneEnd

\* C2: the kept references are exactly the complete records among the first
\* max_refs entries of the upstream list, in upstream order (likewise the
\* citations with max_cites); a record at an index beyond the limit never
\* appears, so there are at most max_refs blue and max_cites green nodes.
C2_TruncateThenFilter ==
    pc = "returned" =>
        LET KR == KeptIdx(UpRefs, max_refs)
            KC == KeptIdx(UpCites, max_cites)
            nr == Cardinality(KR)
            nc == Cardinality(KC)
            blue == {i \in 1..Len(nodes) : nodes[i].color = Blue}
            green == {i \in 1..Len(nodes) : nodes[i].color = Green}
        IN /\ blue = 2..(1 + nr)
           /\ green = (2 + nr)..(1 + nr + nc)
           /\ \A j \in 1..nr :
                 /\ nodes[1 + j].id = UpRefs[Nth(KR, j)].paperId
                 /\ nodes[1 + j].label = LabelOf(UpRefs[Nth(KR, j)].title)
           /\ \A j \in 1..nc :
                 /\ nodes[1 + nr + j].id = UpCites[Nth(KC, j)].paperId
                 /\ nodes[1 + nr + j].label = LabelOf(UpCites[Nth(KC, j)].title)
           /\ Cardinality(blue) <= max_refs
           /\ Cardinality(green) <= max_cites

\* a complete record lies beyond the limit while a record below the limit was dropped
C2_Witness ==
    /\ pc = "returned"
    /\ \E i, k \in 1..Len(UpRefs) :
          /\ k <= max_refs /\ ~Complete(UpRefs[k])
          /\ i > max_refs /\ Complete(UpRefs[i])
    /\ Len(nodes) = 1

\* C3: a record whose id or title is missing or empty yields neither a node
\* nor an edge and is never given a placeholder label; the seed node is
\* always there and is labelled "Unknown Title" when the seed has no title.
C3_DroppedNotPlaceholder ==
    pc = "returned" =>
        LET complete == {r \in {UpRefs[i] : i \in 1..Len(UpRefs)}
                               \cup {UpCites[i] : i \in 1..Len(UpCites)} : Complete(r)}
            nComplete == Cardinality({i \in 1..Len(UpRefs) : Complete(UpRefs[i])})
                         + Cardinality({i \in 1..Len(UpCites) : Complete(UpCites[i])})
        IN /\ Len(nodes) >= 1
           /\ nodes[1].id = SeedId /\ nodes[1].color = Red
           /\ (details.title \in {None, ""}) => nodes[1].label = "Unknown Title"
           /\ (details.title \notin {None, ""}) => nodes[1].label = LabelOf(details.title)
           /\ \A i \in 2..Len(nodes) :
                 /\ nodes[i].label # "Unknown Title"
                 /\ \E r \in complete :
                       r.paperId = nodes[i].id /\ LabelOf(r.title) = nodes[i].label
           /\ \A j \in 1..Len(edges) :
                 \E r \in complete : r.paperId \in {edges[j].source, edges[j].target}
           /\ Len(nodes) - 1 <= nComplete
           /\ Len(edges) <= nComplete

\* the seed has no title and every record of both lists is incomplete
C3_Witness ==
    /\ pc = "returned"
    /\ details.title \in {None, ""}
    /\ Len(UpRefs) >= 1 /\ Len(UpCites) >= 1
    /\ \A i \in 1..Len(UpRefs) : ~Complete(UpRefs[i])
    /\ \A i \in 1..Len(UpCites) : ~Complete(UpCites[i])
    /\ Len(nodes) = 1 /\ edges = <<>>
    /\ nodes[1].label = "Unknown Title"

\* C9: the nodes build_graph returns are a set of papers: no two of them
\* have the same id.
C9_NodeIdsDistinct ==
    pc = "returned" =>
        \A i, j \in 1..Len(nodes) : i # j => nodes[i].id # nodes[j].id

-----------------------------------------------------------------------------
(* Properties of the session (checked under Spec) *)

\* C4: the button pass writes only pending_search_query and leaves
\* search_query as it was; the script assigns search_query only in the apply
\* step, before the text input is instantiated, and that step clears
\* pending_search_query: pending_search_query is empty whenever the text
\* input is instantiated and search_query is never written after it in the
\* same pass.
C4_QueryStaging ==
    /\ pc = "input" => pending_search_query = ""
    /\ trace.widget => trace.pending_widget = ""
    /\ trace.widget => search_query = trace.sq_widget
    /\ search_query # trace.sq_start => trace.applied /\ search_query = trace.staged
    /\ trace.fired =>
          /\ search_query = trace.sq_start
          /\ pending_search_query = (IF trace.fired_title \in {None, ""} THEN ""
                                     ELSE trace.fired_title)

\* the button fired while the box held another text, and staged the clicked title
C4_Witness ==
    /\ pc = "idle"
    /\ trace.fired
    /\ pending_search_query = Title31
    /\ search_query = "rabbit"
    /\ query = "rabbit"

\* C6: build_graph is invoked in a pass only if the query is non-empty, the
\* search returned a candidate and the checkbox keyed by the query is ticked,
\* and it is invoked with that candidate's id; in a pass whose query differs
\* from the previous pass's the checkbox is unticked and no graph is built.
C6_ConfirmationGate ==
    pc = "idle" =>
        /\ trace.build_key # NoKey =>
              /\ query \notin {None, ""}
              /\ Len(results) > 0
              /\ trace.confirm
              /\ trace.build_key = <<results[1].paperId, max_refs, max_cites>>
        /\ query # trace.prev_query =>
              /\ ~trace.confirm
              /\ trace.build_key = NoKey
              /\ nodes = <<>>

\* a staged title replaced a confirmed query: the candidate is shown unconfirmed
C6_Witness ==
    /\ pc = "idle"
    /\ trace.applied
    /\ query # trace.prev_query
    /\ Len(results) > 0
    /\ ~trace.confirm
    /\ nodes = <<>>

\* C7: an exception of search_paper, of the get_paper inside build_graph or
\* of the get_paper for the clicked node is caught and shown; the pass runs
\* to its end, a failed search counts as no result, a failed details fetch
\* stages nothing, and search_query and pending_search_query stay as they
\* were.
C7_ExceptionsCaught ==
    pc = "idle" =>
        /\ trace.completed
        /\ trace.search_failed =>
              /\ "Search failed" \in trace.errors
              /\ results = <<>> /\ shown_confirm = None
              /\ trace.build_key = NoKey /\ nodes = <<>>
        /\ trace.build_failed =>
              /\ "Graph error" \in trace.errors
              /\ ~trace.built_ok /\ nodes = <<>> /\ edges = <<>>
              /\ ~trace.fired
        /\ trace.details_failed =>
              /\ "Failed to fetch paper details" \in trace.errors
              /\ ~trace.fired /\ shown_button = None
        /\ (trace.search_failed \/ trace.build_failed \/ trace.details_failed) =>
              /\ search_query = trace.sq_widget
              /\ pending_search_query = trace.pending_widget

\* the seed button was clicked and the details fetch of that pass failed
C7_Witness ==
    /\ pc = "idle"
    /\ event.type = "use_seed"
    /\ trace.built_ok
    /\ trace.details_failed
    /\ pending_search_query = ""

\* C8: after the reset callback search_query = '', graph_data = None and
\* pending_search_query = ''; the pass that follows applies no staged query,
\* shows an empty text box, and neither searches nor builds a graph.
C8_Reset ==
    event.type = "reset" =>
        /\ search_query = "" /\ graph_data = None /\ pending_search_query = ""
        /\ ~trace.applied
        /\ trace.widget => query = ""
        /\ trace.searched = None
        /\ trace.build_key = NoKey
        /\ pc = "idle" => trace.completed /\ results = <<>> /\ nodes = <<>>

\* a reset pass has ended that discarded a staged title
C8_Witness ==
    /\ pc = "idle"
    /\ event.type = "reset"
    /\ trace.staged0 = ShortTitle
    /\ trace.prev_query = "rabbit"
    /\ trace.completed

\* the clicked paper had no title: nothing is staged and the query stays
EmptyTitleStagesNothing ==
    (trace.fired /\ trace.fired_title \in {None, ""}) =>
        pending_search_query = "" /\ search_query = trace.sq_start

\* C10: once a non-empty title T is staged, the next pass not preceded by the
\* reset callback searches with exactly T and ends with pending_search_query
\* empty, whatever the user typed in between; a staged value is applied at
\* most once, and a clicked paper whose title is empty stages nothing.
C10_StagedThenEmpty ==
    /\ (pc = "idle" /\ trace.staged \notin {None, ""}) =>
          /\ trace.searched = trace.staged
          /\ pending_search_query = ""
    /\ EmptyTitleStagesNothing

\* C10, amended: the pass searches with exactly T and pending_search_query is
\* empty when the text input is instantiated; it is non-empty at the end of
\* a pass only if the seed button fired in that very pass.
C10_StagedApplied ==
    /\ (pc = "idle" /\ trace.staged \notin {None, ""}) =>
          /\ trace.applied
          /\ query = trace.staged
          /\ trace.searched = trace.staged
          /\ trace.pending_widget = ""
          /\ pending_search_query = "" \/ trace.fired
    /\ trace.applied => trace.staged \notin {None, ""}
    /\ (pc = "idle" /\ pending_search_query # "") =>
          trace.fired /\ pending_search_query = trace.fired_title
    /\ EmptyTitleStagesNothing

\* the user typed another text after a title was staged; the pass searched the title
C10_Witness ==
    /\ pc = "idle"
    /\ event.type = "type"
    /\ trace.staged = ShortTitle
    /\ trace.sq_start = "rabbit"
    /\ trace.searched = ShortTitle
    /\ pending_search_query = ""

-----------------------------------------------------------------------------
(* Properties of the memoized build_graph (checked under SpecCache) *)

====
